---- MODULE Spec2Model ----
(***************************************************************************)
(* Daily Agent KPI pipeline (src/app.py, class Pipeline) and the caller's  *)
(* two exception handlers.  A workbook is a function from sheet name to a  *)
(* sheet; a sheet is a set of raw headers and a sequence of rows; a row is *)
(* a function from header to cell.  The pandas calls the code makes        *)
(* (read_excel, to_datetime, astype(str), drop_duplicates, groupby/agg,    *)
(* merge(how='left'), fillna) are modelled by what they do to these        *)
(* values:                                                                 *)
(*   - read_excel gives a column one dtype for all its cells; digit text   *)
(*     in a column that reads as numbers throughout becomes the number;    *)
(*   - to_datetime keeps the time of day, maps an empty cell to NaT and    *)
(*     raises a subclass of ValueError on text it cannot parse;            *)
(*   - drop_duplicates and merge treat NaT as equal to NaT, groupby        *)
(*     (dropna=True) leaves the rows with a NaT key out of every group;    *)
(*   - an exception leaves build_db at once, whatever self.base holds.     *)
(***************************************************************************)
EXTENDS Integers, Sequences, FiniteSets, TLC

VARIABLES file, pc, cho, cht, chd, che, base, stats, exc, ret, ui

vars == <<file, pc, cho, cht, chd, che, base, stats, exc, ret, ui>>

(***************************************************************************)
(* Cells of a sheet and values of a DataFrame.                             *)
(***************************************************************************)
Blank == [k |-> "blank"]                    \* empty cell, NaN
Num(n) == [k |-> "num", n |-> n]            \* numeric cell
Text(s) == [k |-> "text", s |-> s]          \* text cell, s a tuple of characters
Word(w) == [k |-> "word", w |-> w]          \* text cell holding a word of the vocabulary
DateCell(d, t) == [k |-> "dt", d |-> d, t |-> t]   \* datetime cell: day d, hour t
Cat(ws) == [k |-> "cat", ws |-> ws]         \* concatenation of the words ws

NaT == [k |-> "NaT"]
Timestamp(d, t) == [k |-> "ts", d |-> d, t |-> t]

None == [k |-> "None"]

Range(s) == {s[i] : i \in DOMAIN s}

RECURSIVE SeqSum(_)
SeqSum(s) == IF s = <<>> THEN 0 ELSE s[1] + SeqSum(Tail(s))

RECURSIVE Flatten(_)
Flatten(ss) == IF ss = <<>> THEN <<>> ELSE ss[1] \o Flatten(Tail(ss))

RECURSIVE SetToSeq(_)
SetToSeq(S) ==
    IF S = {} THEN <<>>
    ELSE LET x == CHOOSE y \in S : TRUE IN <<x>> \o SetToSeq(S \ {x})

(***************************************************************************)
(* Text of numbers: int(), str(int) and str(float) on character tuples.    *)
(***************************************************************************)
Digits == <<"0", "1", "2", "3", "4", "5", "6", "7", "8", "9">>

DigitVal(c) == (CHOOSE i \in DOMAIN Digits : Digits[i] = c) - 1

IsDigits(s) == Len(s) > 0 /\ \A i \in DOMAIN s : s[i] \in Range(Digits)

RECURSIVE ParseInt(_)
ParseInt(s) ==
    IF s = <<>> THEN 0
    ELSE ParseInt(SubSeq(s, 1, Len(s) - 1)) * 10 + DigitVal(s[Len(s)])

RECURSIVE IntStr(_)
IntStr(n) ==
    IF n < 10 THEN <<Digits[n + 1]>>
    ELSE IntStr(n \div 10) \o <<Digits[(n % 10) + 1]>>

FloatStr(n) == IntStr(n) \o <<".", "0">>

NanStr == <<"n", "a", "n">>

(***************************************************************************)
(* str.lower().strip() on the headers and str.lower() on the words the     *)
(* model's workbooks use.                                                  *)
(***************************************************************************)
LowerStrip(h) ==
    CASE h = "Date" -> "date"
      [] h = " DATE " -> "date"
      [] h = "AgentMIS" -> "agentmis"
      [] h = "Status " -> "status"
      [] h = "Shift" -> "shift"
      [] h = "ANS_VOL" -> "ans_vol"
      [] h = "AHT" -> "aht"
      [] h = " Art" -> "art"
      [] h = "Score" -> "score"
      [] h = "Sloved" -> "sloved"
      [] h = "Final" -> "final"
      [] h = "RC1" -> "rc1"
      [] h = "RC2" -> "rc2"
      [] h = "RC" -> "rc"
      [] h = "BC" -> "bc"
      [] h = "CC" -> "cc"
      [] OTHER -> h

Lower(w) ==
    CASE w = "No Show" -> "no show"
      [] w = "NO SHOW" -> "no show"
      [] w = "OFF" -> "off"
      [] w = "Off" -> "off"
      [] w = "Present" -> "present"
      [] w = "Yes" -> "yes"
      [] w = "YES" -> "yes"
      [] w = "No" -> "no"
      [] w = "Pass" -> "pass"
      [] w = "FAIL" -> "fail"
      [] w = "Fail" -> "fail"
      [] OTHER -> w

\* Series.astype(str) on a column of words and empty cells, one value
AsStr(c) ==
    CASE c.k = "word" -> c.w
      [] c.k = "blank" -> "nan"

(***************************************************************************)
(* pd.read_excel: every column gets one dtype, inferred from all its       *)
(* cells; in a column whose cells all read as numbers, digit text is       *)
(* converted to the number, and one empty cell makes the column float64.   *)
(***************************************************************************)
ColCells(rows, h) == [i \in DOMAIN rows |-> rows[i][h]]

NumLike(c) == c.k = "num" \/ (c.k = "text" /\ IsDigits(c.s))

InferDtype(cells) ==
    IF cells = <<>> THEN "object"
    ELSE IF \A i \in DOMAIN cells : cells[i].k = "blank" THEN "float64"
    ELSE IF \A i \in DOMAIN cells : NumLike(cells[i]) THEN "int64"
    ELSE IF \A i \in DOMAIN cells : NumLike(cells[i]) \/ cells[i].k = "blank"
         THEN "float64"
    ELSE IF \A i \in DOMAIN cells : cells[i].k \in {"dt", "blank"}
         THEN "datetime64"
    ELSE "object"

IsNumericDtype(t) == t \in {"int64", "float64"}

ConvertCell(c, t) ==
    IF IsNumericDtype(t) /\ c.k = "text" THEN Num(ParseInt(c.s)) ELSE c

ReadExcel(sheet) ==
    LET dt == [h \in sheet.hdr |-> InferDtype(ColCells(sheet.rows, h))]
    IN [columns |-> sheet.hdr,
        dtype |-> dt,
        rows |-> [i \in DOMAIN sheet.rows |->
                    [h \in sheet.hdr |-> ConvertCell(sheet.rows[i][h], dt[h])]]]

(***************************************************************************)
(* Pipeline.standardize                                                    *)
(***************************************************************************)
\* pd.to_datetime, one value: the time of day is kept
ToDatetime(c) ==
    CASE c.k = "dt" -> Timestamp(c.d, c.t)
      [] c.k = "blank" -> NaT

\* Series.astype(str), one value of a column of dtype t
AstypeStr(c, t) ==
    CASE c.k = "blank" -> NanStr
      [] c.k = "num" -> IF t = "float64" THEN FloatStr(c.n) ELSE IntStr(c.n)
      [] c.k = "text" -> c.s

RenameColumns(df) ==
    LET cols == {LowerStrip(h) : h \in df.columns}
        raw(c) == CHOOSE h \in df.columns : LowerStrip(h) = c
    IN [columns |-> cols,
        dtype |-> [c \in cols |-> df.dtype[raw(c)]],
        rows |-> [i \in DOMAIN df.rows |-> [c \in cols |-> df.rows[i][raw(c)]]]]

\* pd.to_datetime raises a ValueError (ParserError, DateParseError) on text
\* it cannot parse
DateUnparseable(df) ==
    /\ "date" \in df.columns
    /\ \E i \in DOMAIN df.rows : df.rows[i]["date"].k \notin {"dt", "blank"}

ConvertKey(r, c, t) ==
    IF c = "date" THEN ToDatetime(r[c])
    ELSE IF c = "agentmis" THEN AstypeStr(r[c], t)
    ELSE r[c]

standardize(df0) ==
    LET df == RenameColumns(df0)
    IN IF DateUnparseable(df)
       THEN [ok |-> FALSE, exc |-> [type |-> "DateParseError", msg |-> <<"date">>]]
       ELSE [ok |-> TRUE,
             df |-> [columns |-> df.columns,
                     dtype |-> [c \in df.columns |->
                                  IF c = "date" THEN "datetime64"
                                  ELSE IF c = "agentmis" THEN "object"
                                  ELSE df.dtype[c]],
                     rows |-> [i \in DOMAIN df.rows |->
                                 [c \in df.columns |->
                                    ConvertKey(df.rows[i], c, df.dtype[c])]]]]

(***************************************************************************)
(* Exceptions: the classes the pipeline raises and their base classes.     *)
(***************************************************************************)
IsValueError(e) == e.type \in {"ValueError", "DateParseError"}

(***************************************************************************)
(* Pipeline.validate_sheets                                                *)
(***************************************************************************)
required_sheets == <<"CHO", "CHT", "CHD", "CHE">>

available_sheets(f) == DOMAIN f

\* only the first absent sheet is reported
FirstMissing(f) ==
    LET all == SelectSeq(required_sheets, LAMBDA s : s \notin available_sheets(f))
    IN IF all = <<>> THEN <<>> ELSE <<all[1]>>

Missing(f) == SelectSeq(required_sheets, LAMBDA s : s \notin available_sheets(f))

MissingSheetError(missing) ==
    [type |-> "ValueError", msg |-> <<"Missing required sheets: ">> \o missing]

(***************************************************************************)
(* drop_duplicates, groupby, merge, fillna                                 *)
(***************************************************************************)
KeyOf(r) == <<r["date"], r["agentmis"]>>

KeyFrame(df) == [i \in DOMAIN df.rows |->
                   [c \in {"date", "agentmis"} |-> df.rows[i][c]]]

\* a concat that is not deduplicated
KeepDuplicates(rows) == rows

\* DataFrame.drop_duplicates: the first occurrence is kept, NaT equals NaT
RECURSIVE DropDuplicates(_)
DropDuplicates(rows) ==
    IF rows = <<>> THEN <<>>
    ELSE LET front == SubSeq(rows, 1, Len(rows) - 1)
             last == rows[Len(rows)]
         IN IF last \in Range(front) THEN DropDuplicates(front)
            ELSE DropDuplicates(front) \o <<last>>

\* groupby(['date','agentmis']): one group per distinct key; dropna=True
\* leaves out the rows whose date is NaT
GroupKeys(df) ==
    {KeyOf(df.rows[i]) : i \in {j \in DOMAIN df.rows : df.rows[j]["date"] # NaT}}

Group(df, key) == SelectSeq(df.rows, LAMBDA r : KeyOf(r) = key)

Count(rows, P(_)) == Len(SelectSeq(rows, P))

\* merge(agg, on=['date','agentmis'], how='left')
Merge(left, agg, mcols) ==
    LET cols == Range(left.columns) \cup Range(mcols)
        joined(r) ==
            LET m == SetToSeq({g \in agg : g["date"] = r["date"]
                                          /\ g["agentmis"] = r["agentmis"]})
            IN IF m = <<>>
               THEN << [c \in cols |->
                          IF c \in Range(left.columns) THEN r[c] ELSE Blank] >>
               ELSE [j \in DOMAIN m |->
                          [c \in cols |->
                              IF c \in Range(left.columns) THEN r[c] ELSE m[j][c]]]
    IN [columns |-> left.columns \o mcols,
        rows |-> Flatten([i \in DOMAIN left.rows |-> joined(left.rows[i])])]

\* no fill at all
NoFill(t, mcols) == t

\* DataFrame.fillna(0) on the columns mcols
FillNa(t, mcols) ==
    [columns |-> t.columns,
     rows |-> [i \in DOMAIN t.rows |->
                 [c \in Range(t.columns) |->
                    IF c \in mcols /\ t.rows[i][c] = Blank THEN Num(0)
                    ELSE t.rows[i][c]]]]

(***************************************************************************)
(* The four aggregators' group-wise reducers.                              *)
(***************************************************************************)
KeyCols == <<"date", "agentmis">>

cho_metrics == <<"absent", "scheduled">>
cht_metrics == <<"ans_vol", "aht_min", "art_min">>
chd_metrics == <<"surveyed_count", "solved_count", "not_solved_count",
                 "csat_count", "dsat_count">>
che_metrics == <<"evaluated_count", "pass_eval_count", "fail_eval_count",
                 "rc1_fail", "rc2_fail", "rc_fail", "bc_fail", "cc_fail">>

\* lambda x: (x.astype(str).str.lower() == w).sum()
CountEq(rows, c, w) == Count(rows, LAMBDA r : Lower(AsStr(r[c])) = w)

\* lambda x: (x.astype(str).str.lower() != w).sum(), also ~isin([w])
CountNe(rows, c, w) == Count(rows, LAMBDA r : Lower(AsStr(r[c])) # w)

\* 'count': the values that are not null
CountNotNull(rows, c) == Count(rows, LAMBDA r : r[c] # Blank)

\* 'sum' of a group: NaN is skipped, words are concatenated
SumCells(rows, c) ==
    LET words == SelectSeq(rows, LAMBDA r : r[c].k = "word")
        nums == SelectSeq(rows, LAMBDA r : r[c].k = "num")
    IN IF words # <<>> THEN Cat([i \in DOMAIN words |-> words[i][c].w])
       ELSE Num(SeqSum([i \in DOMAIN nums |-> nums[i][c].n]))

\* 'sum' raises a TypeError in a group that adds a word to a number or NaN
SumTypeError(df, c) ==
    \E key \in GroupKeys(df) :
        /\ \E r \in Range(Group(df, key)) : r[c].k = "word"
        /\ \E r \in Range(Group(df, key)) : r[c].k # "word"

\* the gate looks at the group's own values instead of the column's dtype
csat_own(rows, t) ==
    IF \A r \in Range(rows) : r["score"].k \in {"num", "blank"}
    THEN Count(rows, LAMBDA r : r["score"].k = "num" /\ r["score"].n \in {4, 5})
    ELSE 0

\* csat(x): x is the group's slice of the score column and has the column's dtype t
csat(rows, t) ==
    IF IsNumericDtype(t)
    THEN Count(rows, LAMBDA r : r["score"].k = "num" /\ r["score"].n \in {4, 5})
    ELSE 0

dsat(rows, t) ==
    IF IsNumericDtype(t)
    THEN Count(rows, LAMBDA r : r["score"].k = "num" /\ r["score"].n = 1)
    ELSE 0

KeyPart(key) == ("date" :> key[1]) @@ ("agentmis" :> key[2])

AggCho(df) ==
    {LET g == Group(df, key)
     IN KeyPart(key)
        @@ ("absent" :> Num(CountEq(g, "status", "no show")))
        @@ ("scheduled" :> Num(CountNe(g, "status", "off")))
     : key \in GroupKeys(df)}

AggCht(df) ==
    {LET g == Group(df, key)
     IN KeyPart(key)
        @@ ("ans_vol" :> SumCells(g, "ans_vol"))
        @@ ("aht_min" :> SumCells(g, "aht"))
        @@ ("art_min" :> SumCells(g, "art"))
     : key \in GroupKeys(df)}

AggChd(df) ==
    {LET g == Group(df, key)
     IN KeyPart(key)
        @@ ("surveyed_count" :> Num(CountNotNull(g, "score")))
        @@ ("solved_count" :> Num(CountEq(g, "sloved", "yes")))
        @@ ("not_solved_count" :> Num(CountNe(g, "sloved", "yes")))
        @@ ("csat_count" :> Num(csat(g, df.dtype["score"])))
        @@ ("dsat_count" :> Num(dsat(g, df.dtype["score"])))
     : key \in GroupKeys(df)}

count_fail(rows, c) == CountEq(rows, c, "fail")

AggChe(df) ==
    {LET g == Group(df, key)
     IN KeyPart(key)
        @@ ("evaluated_count" :> Num(CountNotNull(g, "final")))
        @@ ("pass_eval_count" :> Num(CountEq(g, "final", "pass")))
        @@ ("fail_eval_count" :> Num(CountEq(g, "final", "fail")))
        @@ ("rc1_fail" :> Num(count_fail(g, "rc1")))
        @@ ("rc2_fail" :> Num(count_fail(g, "rc2")))
        @@ ("rc_fail" :> Num(count_fail(g, "rc")))
        @@ ("bc_fail" :> Num(count_fail(g, "bc")))
        @@ ("cc_fail" :> Num(count_fail(g, "cc")))
     : key \in GroupKeys(df)}

\* df[c] and groupby/agg on c raise a KeyError when the column c is absent
KeyError(c) == [type |-> "KeyError", msg |-> <<c>>]

Lacks(df, cols) == {c \in cols : c \notin df.columns}

FirstLacking(df, cols) == CHOOSE c \in Lacks(df, cols) : TRUE

(***************************************************************************)
(* build_base's statistics                                                 *)
(***************************************************************************)
Dates(rows) == {rows[i]["date"] : i \in DOMAIN rows} \ {NaT}

Before(a, b) == a.d < b.d \/ (a.d = b.d /\ a.t <= b.t)

MinDate(rows) == CHOOSE a \in Dates(rows) : \A b \in Dates(rows) : Before(a, b)

MaxDate(rows) == CHOOSE a \in Dates(rows) : \A b \in Dates(rows) : Before(b, a)

\* strftime('%Y-%m-%d')
Strftime(ts) == ts.d

\* min() and max() of a column with no date are NaT, and NaT.strftime raises
NaTStrftimeError == [type |-> "ValueError", msg |-> <<"NaTType does not support strftime">>]

(***************************************************************************)
(* State after Pipeline(file): the workbook is the input.                  *)
(***************************************************************************)
InitOf(f) ==
    /\ file = f
    /\ pc = "start"
    /\ cho = None
    /\ cht = None
    /\ chd = None
    /\ che = None
    /\ base = None
    /\ stats = << >>
    /\ exc = None
    /\ ret = None
    /\ ui = [kind |-> "none"]

\* the failure is swallowed and the table built so far is handed back
ReturnPartial(e) ==
    /\ pc' = "raised"
    /\ exc' = e
    /\ ret' = base

\* raise e out of build_db: nothing is returned
Raise(e) ==
    /\ pc' = "raised"
    /\ exc' = e
    /\ ret' = ret

(***************************************************************************)
(* Pipeline.validate_sheets, called first by load_sheets                   *)
(***************************************************************************)
ValidateSheets ==
    /\ pc = "start"
    /\ IF Missing(file) # <<>>
       THEN Raise(MissingSheetError(Missing(file)))
       ELSE pc' = "validated" /\ UNCHANGED <<exc, ret>>
    /\ UNCHANGED <<file, cho, cht, chd, che, base, stats, ui>>

(***************************************************************************)
(* Pipeline.load_sheets after the validation: the sheets are read and      *)
(* standardized in the order CHO, CHT, CHD, CHE; the first failure leaves  *)
(* the later fields unassigned.                                            *)
(***************************************************************************)
LoadSheets ==
    /\ pc = "validated"
    /\ LET a == standardize(ReadExcel(file["CHO"]))
           b == standardize(ReadExcel(file["CHT"]))
           c == standardize(ReadExcel(file["CHD"]))
           d == standardize(ReadExcel(file["CHE"]))
       IN /\ cho' = IF a.ok THEN a.df ELSE cho
          /\ cht' = IF a.ok /\ b.ok THEN b.df ELSE cht
          /\ chd' = IF a.ok /\ b.ok /\ c.ok THEN c.df ELSE chd
          /\ che' = IF a.ok /\ b.ok /\ c.ok /\ d.ok THEN d.df ELSE che
          /\ IF ~a.ok THEN Raise(a.exc) /\ stats' = stats
             ELSE IF ~b.ok THEN Raise(b.exc) /\ stats' = stats
             ELSE IF ~c.ok THEN Raise(c.exc) /\ stats' = stats
             ELSE IF ~d.ok THEN Raise(d.exc) /\ stats' = stats
             ELSE /\ pc' = "loaded"
                  /\ stats' = ("cho_rows" :> Len(a.df.rows))
                              @@ ("cht_rows" :> Len(b.df.rows))
                              @@ ("chd_rows" :> Len(c.df.rows))
                              @@ ("che_rows" :> Len(d.df.rows))
                  /\ UNCHANGED <<exc, ret>>
    /\ UNCHANGED <<file, base, ui>>

(***************************************************************************)
(* Pipeline.build_base                                                     *)
(***************************************************************************)
Concat(dfs) == Flatten([i \in DOMAIN dfs |-> KeyFrame(dfs[i])])

BaseOf(dfs) == [columns |-> KeyCols, rows |-> DropDuplicates(Concat(dfs))]

BuildBase ==
    /\ pc = "loaded"
    /\ LET dfs == <<cho, cht, chd, che>>
           bad == SelectSeq(dfs, LAMBDA df : Lacks(df, Range(KeyCols)) # {})
       IN IF bad # <<>>
          THEN /\ Raise(KeyError(FirstLacking(bad[1], Range(KeyCols))))
               /\ UNCHANGED <<base, stats>>
          ELSE LET b == BaseOf(dfs)
                   agents == {b.rows[i]["agentmis"] : i \in DOMAIN b.rows}
               IN /\ base' = b
                  /\ IF Dates(b.rows) = {}
                     THEN /\ Raise(NaTStrftimeError)
                          /\ stats' = stats @@ ("unique_agents" :> Cardinality(agents))
                     ELSE /\ pc' = "based"
                          /\ stats' = stats
                                @@ ("unique_agents" :> Cardinality(agents))
                                @@ ("date_range" :> <<Strftime(MinDate(b.rows)), "to",
                                                      Strftime(MaxDate(b.rows))>>)
                                @@ ("total_records" :> Len(b.rows))
                          /\ UNCHANGED <<exc, ret>>
    /\ UNCHANGED <<file, cho, cht, chd, che, ui>>

(***************************************************************************)
(* Pipeline.aggregate_cho, aggregate_cht, aggregate_chd, aggregate_che     *)
(***************************************************************************)
AggregateCho ==
    /\ pc = "based"
    /\ IF Lacks(cho, {"status"}) # {}
       THEN Raise(KeyError("status")) /\ base' = base
       ELSE /\ base' = Merge(base, AggCho(cho), cho_metrics)
            /\ pc' = "cho"
            /\ UNCHANGED <<exc, ret>>
    /\ UNCHANGED <<file, cho, cht, chd, che, stats, ui>>

AggregateCht ==
    /\ pc = "cho"
    /\ LET need == {"ans_vol", "aht", "art"}
       IN IF Lacks(cht, need) # {}
          THEN Raise(KeyError(FirstLacking(cht, need))) /\ base' = base
          ELSE IF \E c \in need : SumTypeError(cht, c)
          THEN Raise([type |-> "TypeError", msg |-> <<"unsupported operand type(s)">>])
               /\ base' = base
          ELSE /\ base' = Merge(base, AggCht(cht), cht_metrics)
               /\ pc' = "cht"
               /\ UNCHANGED <<exc, ret>>
    /\ UNCHANGED <<file, cho, cht, chd, che, stats, ui>>

AggregateChd ==
    /\ pc = "cht"
    /\ LET need == {"score", "sloved"}
       IN IF Lacks(chd, need) # {}
          THEN Raise(KeyError(FirstLacking(chd, need))) /\ base' = base
          ELSE /\ base' = Merge(base, AggChd(chd), chd_metrics)
               /\ pc' = "chd"
               /\ UNCHANGED <<exc, ret>>
    /\ UNCHANGED <<file, cho, cht, chd, che, stats, ui>>

AggregateChe ==
    /\ pc = "chd"
    /\ LET need == {"final", "rc1", "rc2", "rc", "bc", "cc"}
       IN IF Lacks(che, need) # {}
          THEN Raise(KeyError(FirstLacking(che, need))) /\ base' = base
          ELSE /\ base' = Merge(base, AggChe(che), che_metrics)
               /\ pc' = "che"
               /\ UNCHANGED <<exc, ret>>
    /\ UNCHANGED <<file, cho, cht, chd, che, stats, ui>>

(***************************************************************************)
(* Pipeline.build_db after the four aggregations: fill and return          *)
(***************************************************************************)
metric_cols(t) == {c \in Range(t.columns) : c \notin {"date", "agentmis"}}

BuildDb ==
    /\ pc = "che"
    /\ base' = FillNa(base, metric_cols(base))
    /\ ret' = base'
    /\ pc' = "returned"
    /\ UNCHANGED <<file, cho, cht, chd, che, stats, exc, ui>>

(***************************************************************************)
(* The caller: the preview of the table and the two except clauses.        *)
(***************************************************************************)
ShowResult ==
    /\ pc = "returned"
    /\ ui' = [kind |-> "table", records |-> Len(ret.rows)]
    /\ pc' = "done"
    /\ UNCHANGED <<file, cho, cht, chd, che, base, stats, exc, ret>>

ExceptValueError ==
    /\ pc = "raised"
    /\ IsValueError(exc)
    /\ ui' = [kind |-> "validation", msg |-> exc.msg,
              hint |-> <<"CHO", "CHT", "CHD", "CHE">>]
    /\ pc' = "done"
    /\ UNCHANGED <<file, cho, cht, chd, che, base, stats, exc, ret>>

ExceptException ==
    /\ pc = "raised"
    /\ ~IsValueError(exc)
    /\ ui' = [kind |-> "processing", msg |-> exc.msg]
    /\ pc' = "done"
    /\ UNCHANGED <<file, cho, cht, chd, che, base, stats, exc, ret>>

Next ==
    \/ ValidateSheets
    \/ LoadSheets
    \/ BuildBase
    \/ AggregateCho
    \/ AggregateCht
    \/ AggregateChd
    \/ AggregateChe
    \/ BuildDb
    \/ ShowResult
    \/ ExceptValueError
    \/ ExceptException

(***************************************************************************)
(* Workbooks.  Headers are written as a workbook has them (mixed case,     *)
(* stray blanks).                                                          *)
(***************************************************************************)
MaxRows == 2        \* rows of the sheet a family varies
MaxOther == 1       \* rows of the second sheet a family varies

SeqsUpTo(R, n) == UNION {[1..k -> R] : k \in 0..n}

ChoRow(d, a, s) == ("Date" :> d) @@ ("AgentMIS" :> a) @@ ("Status " :> s)

ChtRow(d, a, v, h, r) ==
    (" DATE " :> d) @@ ("AgentMIS" :> a) @@ ("ANS_VOL" :> v) @@ ("AHT" :> h)
    @@ (" Art" :> r)

ChdRow(d, a, sc, sl) ==
    ("date" :> d) @@ ("agentmis" :> a) @@ ("Score" :> sc) @@ ("Sloved" :> sl)

CheRow(d, a, f, x) ==
    ("Date" :> d) @@ ("AgentMIS" :> a) @@ ("Final" :> f) @@ ("RC1" :> x)
    @@ ("RC2" :> Word("Pass")) @@ ("RC" :> Blank) @@ ("BC" :> x) @@ ("CC" :> Word("FAIL"))

ChoSheet(rows) == [hdr |-> {"Date", "AgentMIS", "Status "}, rows |-> rows]
ChtSheet(rows) == [hdr |-> {" DATE ", "AgentMIS", "ANS_VOL", "AHT", " Art"}, rows |-> rows]
ChdSheet(rows) == [hdr |-> {"date", "agentmis", "Score", "Sloved"}, rows |-> rows]
CheSheet(rows) ==
    [hdr |-> {"Date", "AgentMIS", "Final", "RC1", "RC2", "RC", "BC", "CC"}, rows |-> rows]

Workbook(a, b, c, d) == ("CHO" :> a) @@ ("CHT" :> b) @@ ("CHD" :> c) @@ ("CHE" :> d)

A7 == Text(<<"A", "7">>)
B7 == Text(<<"B", "7">>)

\* one row in every sheet
PlainCho == ChoSheet(<<ChoRow(DateCell(1, 0), A7, Word("Present"))>>)
PlainCht == ChtSheet(<<ChtRow(DateCell(1, 0), A7, Num(3), Num(2), Blank)>>)
PlainChd == ChdSheet(<<ChdRow(DateCell(2, 0), A7, Num(5), Word("Yes"))>>)
PlainChe == CheSheet(<<CheRow(DateCell(2, 0), B7, Word("Pass"), Word("Fail"))>>)
Plain == Workbook(PlainCho, PlainCht, PlainChd, PlainChe)

\* the workbook f with the sheet named n replaced
WithSheet(f, n, sheet) == [m \in DOMAIN f |-> IF m = n THEN sheet ELSE f[m]]

\* the sheet with the header old written as new
Renamed(sheet, old, new) ==
    LET hdr == (sheet.hdr \ {old}) \cup {new}
    IN [hdr |-> hdr,
        rows |-> [i \in DOMAIN sheet.rows |->
                    [h \in hdr |-> IF h = new THEN sheet.rows[i][old]
                                   ELSE sheet.rows[i][h]]]]

\* the sheet with one more row
Plus(sheet, row) == [hdr |-> sheet.hdr, rows |-> Append(sheet.rows, row)]

Empty(sheet) == [hdr |-> sheet.hdr, rows |-> <<>>]

\* every set of sheet names, the required ones and one more
SheetNames == {"CHO", "CHT", "CHD", "CHE", "Notes"}

NamesFiles ==
    {[n \in names |-> IF n = "Notes" THEN Empty(PlainCho) ELSE Plain[n]]
     : names \in SUBSET SheetNames}

\* workbooks that fail after the validation, one for each place
FailingFiles ==
    {WithSheet(Plain, "CHO", Plus(PlainCho, ChoRow(Word("tomorrow"), A7, Blank))),
     WithSheet(Plain, "CHE", Plus(PlainChe,
                                  CheRow(Word("tomorrow"), A7, Blank, Blank))),
     WithSheet(Plain, "CHT", Renamed(PlainCht, " DATE ", "Day")),
     WithSheet(Plain, "CHD", Renamed(PlainChd, "agentmis", "Agent")),
     WithSheet(Plain, "CHO", Renamed(PlainCho, "Status ", "Shift")),
     WithSheet(Plain, "CHT", Renamed(PlainCht, "AHT", "Handle")),
     WithSheet(Plain, "CHT", Plus(PlainCht,
                                  ChtRow(DateCell(1, 0), A7, Word("many"), Num(1), Num(1)))),
     WithSheet(Plain, "CHD", Renamed(PlainChd, "Sloved", "Solved")),
     WithSheet(Plain, "CHE", Renamed(PlainChe, "RC", "Remarks")),
     Workbook(Empty(PlainCho), Empty(PlainCht), Empty(PlainChd), Empty(PlainChe)),
     Workbook(ChoSheet(<<ChoRow(Blank, A7, Word("No Show"))>>), Empty(PlainCht),
              Empty(PlainChd), Empty(PlainChe))}

CommonFiles == NamesFiles \cup FailingFiles

\* dates of one day at two times of day, and no date
DateCells == {DateCell(1, 0), DateCell(1, 9), Blank}

\* CHO and CHT vary in their keys
KeyFiles ==
    {Workbook(ChoSheet(a), ChtSheet(b), PlainChd, PlainChe)
     : a \in SeqsUpTo({ChoRow(d, g, Word("No Show")) : d \in DateCells, g \in {A7, B7}},
                      MaxRows),
       b \in SeqsUpTo({ChtRow(d, g, Num(3), Num(2), Blank)
                         : d \in DateCells, g \in {A7, B7}}, MaxOther)}

\* agent identifiers: digit text with a leading zero, a number, other text,
\* an empty cell
AgentCells == {Text(<<"0", "7">>), Num(7), A7, Blank}

AgentFiles ==
    {Workbook(ChoSheet(a), ChtSheet(b), PlainChd, PlainChe)
     : a \in SeqsUpTo({ChoRow(DateCell(1, 0), g, Word("Present")) : g \in AgentCells},
                      MaxRows),
       b \in SeqsUpTo({ChtRow(DateCell(1, 0), g, Num(3), Num(2), Blank)
                         : g \in AgentCells}, MaxOther)}

\* CHO varies in key and status
ChoFiles ==
    {Workbook(ChoSheet(a), PlainCht, PlainChd, PlainChe)
     : a \in SeqsUpTo({ChoRow(d, g, st)
                         : d \in {DateCell(1, 0), Blank}, g \in {A7, B7},
                           st \in {Word("No Show"), Word("NO SHOW"), Word("OFF"),
                                   Word("Present"), Blank}},
                      MaxRows)}

\* CHD varies in key, score and resolution
ChdFiles ==
    {Workbook(PlainCho, PlainCht, ChdSheet(c), PlainChe)
     : c \in SeqsUpTo({ChdRow(d, g, sc, sl)
                         : d \in {DateCell(1, 0), Blank}, g \in {A7, B7},
                           sc \in {Num(4), Blank},
                           sl \in {Word("YES"), Word("No"), Blank}},
                      MaxRows)}

\* CHD varies in key and score: numbers, digit text, a word, an empty cell
ScoreFiles ==
    {Workbook(PlainCho, PlainCht, ChdSheet(c), PlainChe)
     : c \in SeqsUpTo({ChdRow(d, g, sc, Word("Yes"))
                         : d \in {DateCell(1, 0), Blank}, g \in {A7, B7},
                           sc \in {Num(4), Num(1), Text(<<"5">>), Word("good"), Blank}},
                      MaxRows)}

Init == \E f \in KeyFiles \cup CommonFiles : InitOf(f)

Spec == Init /\ [][Next]_vars

InitAgents == \E f \in AgentFiles \cup CommonFiles : InitOf(f)

SpecAgents == InitAgents /\ [][Next]_vars

InitCho == \E f \in ChoFiles \cup CommonFiles : InitOf(f)

SpecCho == InitCho /\ [][Next]_vars

InitChd == \E f \in ChdFiles \cup CommonFiles : InitOf(f)

SpecChd == InitChd /\ [][Next]_vars

InitScore == \E f \in ScoreFiles \cup CommonFiles : InitOf(f)

SpecScore == InitScore /\ [][Next]_vars

(***************************************************************************)
(* Properties                                                              *)
(***************************************************************************)
Loaded == {cho, cht, chd, che}

KeySet(df) == {KeyOf(df.rows[i]) : i \in DOMAIN df.rows}

SheetPairs == UNION {KeySet(df) : df \in Loaded}

TableKeys(t) == [i \in DOMAIN t.rows |-> KeyOf(t.rows[i])]

OneRowPerPair(t) ==
    /\ Len(t.rows) = Cardinality(SheetPairs)
    /\ Range(TableKeys(t)) = SheetPairs
    /\ \A i, j \in DOMAIN t.rows : TableKeys(t)[i] = TableKeys(t)[j] => i = j

\* C1: from build_base on, through each of the four left joins and in the
\* table build_db returns, the table has exactly one row per distinct
\* (date, agentmis) pair of the four loaded sheets: as many rows as the union
\* of the sheets' key pairs has members, no pair twice, no pair lost.
C1_OneRowPerPair ==
    /\ pc \in {"based", "cho", "cht", "chd", "che"} => OneRowPerPair(base)
    /\ ret # None => OneRowPerPair(ret)

\* a returned table where a pair occurs in two sheets, a sheet repeats a
\* pair, and three pairs or more exist
C1_Witness ==
    /\ pc = "returned"
    /\ KeySet(cho) \cap KeySet(cht) # {}
    /\ Len(cho.rows) > Cardinality(KeySet(cho))
    /\ Len(ret.rows) >= 3

SheetDf(n) ==
    CASE n = "CHO" -> cho [] n = "CHT" -> cht [] n = "CHD" -> chd [] n = "CHE" -> che

SheetMetrics(n) ==
    CASE n = "CHO" -> cho_metrics [] n = "CHT" -> cht_metrics
      [] n = "CHD" -> chd_metrics [] n = "CHE" -> che_metrics

AllMetrics == cho_metrics \o cht_metrics \o chd_metrics \o che_metrics

\* C2: the returned table has every metric column of the four aggregators,
\* no metric is missing in any row, and a row whose pair has no row in a
\* sheet holds 0 in every metric of that sheet.
C2_NoMissingMetric ==
    ret # None =>
        /\ Range(AllMetrics) \subseteq Range(ret.columns)
        /\ \A i \in DOMAIN ret.rows : \A c \in Range(AllMetrics) :
               ret.rows[i][c] # Blank
        /\ \A i \in DOMAIN ret.rows : \A n \in Range(required_sheets) :
               KeyOf(ret.rows[i]) \notin KeySet(SheetDf(n))
               => \A c \in Range(SheetMetrics(n)) : ret.rows[i][c] = Num(0)

\* a returned table with a pair that CHO does not have and a pair that CHO has
C2_Witness ==
    /\ pc = "returned"
    /\ \E i \in DOMAIN ret.rows : KeyOf(ret.rows[i]) \notin KeySet(cho)
    /\ \E i \in DOMAIN ret.rows : ret.rows[i]["absent"] = Num(1)

Absent == {n \in Range(required_sheets) : n \notin DOMAIN file}

IsMissingSheetError(e) ==
    e # None /\ e.type = "ValueError" /\ e.msg[1] = "Missing required sheets: "

\* C3: validate_sheets raises exactly when a required sheet is absent, and
\* its message names every absent required sheet and no sheet that is present.
C3_MissingSheets ==
    /\ pc = "validated" => Absent = {}
    /\ pc # "start" => (Absent # {} <=> IsMissingSheetError(exc))
    /\ IsMissingSheetError(exc) => Range(Tail(exc.msg)) = Absent

\* the validation has failed on a workbook that lacks two required sheets or
\* more and has another one
C3_Witness ==
    /\ pc = "raised"
    /\ Cardinality(Absent) >= 2
    /\ Absent # Range(required_sheets)
    /\ "Notes" \in DOMAIN file

Complete(t) ==
    /\ t.columns = KeyCols \o AllMetrics
    /\ \A i \in DOMAIN t.rows : \A c \in Range(AllMetrics) : t.rows[i][c] # Blank
    /\ Range(TableKeys(t)) = SheetPairs

\* C4: build_db either returns a complete table (the keys with all four
\* sheets' metrics, filled) or raises: whenever something was returned it is
\* complete and nothing was raised, and whenever something was raised nothing
\* was returned.
C4_AllOrNothing ==
    /\ ret # None => pc \in {"returned", "done"} /\ exc = None /\ Complete(ret)
    /\ exc # None => pc \in {"raised", "done"} /\ ret = None
    /\ ui.kind = "table" => ret # None

\* a stage has raised after a join had already put metrics into self.base
C4_Witness ==
    /\ pc = "raised"
    /\ ret = None
    /\ base # None
    /\ Len(base.columns) > Len(KeyCols)
    /\ Len(base.columns) < Len(KeyCols \o AllMetrics)

\* C5: the caller reports a validation error only when a required sheet is
\* missing.
C5_ValidationOnlyForMissingSheets ==
    ui.kind = "validation" => Absent # {}

SameDay(a, b) == a # NaT /\ b # NaT /\ a.d = b.d

\* C6: the key has day granularity: two rows of the returned table never
\* carry the same agentmis and dates of the same calendar day.
C6_DayGranularity ==
    ret # None =>
        \A i, j \in DOMAIN ret.rows :
            /\ ret.rows[i]["agentmis"] = ret.rows[j]["agentmis"]
            /\ SameDay(ret.rows[i]["date"], ret.rows[j]["date"])
            => i = j

AgentHeader(sheet) == CHOOSE h \in sheet.hdr : LowerStrip(h) = "agentmis"

\* the identifier of a source cell that consists only of digits
SourceId(c) == IF c.k = "num" THEN IntStr(c.n) ELSE c.s

DigitRows(sheet) ==
    {i \in DOMAIN sheet.rows : NumLike(sheet.rows[i][AgentHeader(sheet)])}

IdOfRow(sheet, i) == SourceId(sheet.rows[i][AgentHeader(sheet)])

\* C7: every identifier of a source cell that consists only of digits is,
\* character for character, the agentmis of a row of the returned table, and
\* two source rows, of one sheet or of two, with the same such identifier get
\* the same key text.
C7_IdentifierRoundTrip ==
    ret # None =>
        /\ \A n \in Range(required_sheets) : \A i \in DigitRows(file[n]) :
               \E j \in DOMAIN ret.rows :
                   ret.rows[j]["agentmis"] = IdOfRow(file[n], i)
        /\ \A n, m \in Range(required_sheets) :
               \A i \in DigitRows(file[n]) : \A j \in DigitRows(file[m]) :
                   IdOfRow(file[n], i) = IdOfRow(file[m], j)
                   => SheetDf(n).rows[i]["agentmis"] = SheetDf(m).rows[j]["agentmis"]

RowsOf(df, key) == SelectSeq(df.rows, LAMBDA r : KeyOf(r) = key)

\* C8: in every row of the returned table, a pair with an empty date
\* included, absent is the number of CHO rows of the row's pair whose status
\* is "no show" in any case, scheduled the number of those whose status is not
\* "off", and absent <= scheduled.
C8_AttendanceCounts ==
    ret # None =>
        \A i \in DOMAIN ret.rows :
            LET rows == RowsOf(cho, KeyOf(ret.rows[i]))
            IN /\ ret.rows[i]["absent"] = Num(CountEq(rows, "status", "no show"))
               /\ ret.rows[i]["scheduled"] = Num(CountNe(rows, "status", "off"))
               /\ ret.rows[i]["absent"].n <= ret.rows[i]["scheduled"].n

\* C9: for every pair that has rows in CHD, solved_count is the number of
\* those rows whose sloved is "yes" in any case, not_solved_count the number
\* of all the others, their sum the number of the pair's CHD rows, and
\* surveyed_count the number of those rows with a score.
C9_ResolutionCounts ==
    ret # None =>
        \A i \in DOMAIN ret.rows :
            LET rows == RowsOf(chd, KeyOf(ret.rows[i]))
                yes == CountEq(rows, "sloved", "yes")
            IN rows # <<>> =>
                /\ ret.rows[i]["solved_count"] = Num(yes)
                /\ ret.rows[i]["not_solved_count"] = Num(Len(rows) - yes)
                /\ ret.rows[i]["solved_count"].n + ret.rows[i]["not_solved_count"].n
                       = Len(rows)
                /\ ret.rows[i]["surveyed_count"] = Num(CountNotNull(rows, "score"))

IsNumber(c) == c.k \in {"num", "blank"}

OwnNumeric(rows) == \A r \in Range(rows) : IsNumber(r["score"])

ColumnNumeric == \A i \in DOMAIN chd.rows : IsNumber(chd.rows[i]["score"])

ScoresIn(rows, S) ==
    Count(rows, LAMBDA r : r["score"].k = "num" /\ r["score"].n \in S)

RowOfKey(t, key) == t.rows[CHOOSE i \in DOMAIN t.rows : KeyOf(t.rows[i]) = key]

CountsScores(row, rows) ==
    /\ row["csat_count"] = Num(ScoresIn(rows, {4, 5}))
    /\ row["dsat_count"] = Num(ScoresIn(rows, {1}))

CountsNothing(row) ==
    /\ row["csat_count"] = Num(0)
    /\ row["dsat_count"] = Num(0)

\* C10 as claimed: csat_count and dsat_count of a CHD group are the numbers of
\* its scores in {4, 5} and equal to 1 when the group's own scores are all
\* numbers, whatever the other groups hold, and 0 otherwise.
C10_GroupGating ==
    ret # None =>
        \A key \in GroupKeys(chd) :
            IF OwnNumeric(Group(chd, key))
            THEN CountsScores(RowOfKey(ret, key), Group(chd, key))
            ELSE CountsNothing(RowOfKey(ret, key))

\* C10 as amended: csat_count and dsat_count of a CHD group are the numbers of
\* its scores in {4, 5} and equal to 1 when every score of the CHD sheet is a
\* number or empty, and both are 0 in every group when any row of the sheet,
\* of whatever group, holds a score that is not a number.
C10_ColumnGating ==
    ret # None =>
        \A key \in GroupKeys(chd) :
            IF ColumnNumeric
            THEN CountsScores(RowOfKey(ret, key), Group(chd, key))
            ELSE CountsNothing(RowOfKey(ret, key))

\* a returned table where a group of numbers with a 4 or 5 shares the sheet
\* with a score that is not a number
C10_Witness ==
    /\ pc = "returned"
    /\ ~ColumnNumeric
    /\ \E key \in GroupKeys(chd) :
          /\ OwnNumeric(Group(chd, key))
          /\ ScoresIn(Group(chd, key), {4, 5}) > 0

====
